---- MODULE Spec2Model ----
(***************************************************************************)
(* Filter bank of the ensemble component                                   *)
(* (spinnaker_components/ensemble/filtered_activity.c).                    *)
(*                                                                         *)
(* The three globals of the file are the state.  The two entry points,     *)
(* filtered_activity_initialise and filtered_activity_step, are actions;   *)
(* a third action, Inject, is the external collaborator that writes fresh  *)
(* activity into the exported state vectors.  Memory is modelled far       *)
(* enough to tell a null pointer, an indeterminate (never assigned)        *)
(* pointer and an allocated block of a given size apart, so that an        *)
(* access outside an allocated block is seen (variable fault).             *)
(***************************************************************************)
EXTENDS Integers, Sequences, FiniteSets, TLC

\* ------------------------------------------------------------------ bounds
MaxF      == 2   \* largest filter count in a configuration block
MaxN      == 2   \* largest neuron count handed to initialise
MaxSteps  == 2   \* filtered_activity_step calls per run
MaxInject == 1   \* writes of the external collaborator per run

\* ------------------------------------------------------- fixed-point type
\* value_t is the s16.15 fixed-point type: the diagnostic at line 55 prints
\* a value_t with %k, the s16.15 conversion.
FracBits == 15
One      == 2 ^ FracBits   \* 1.0 in s16.15

Abs(x) == IF x < 0 THEN -x ELSE x

\* The product a * b of two s16.15 values (line 77, operator *=): the exact
\* double-width product shifted right arithmetically by FracBits, that is
\* floor(a*b / 2^15), as the ARM expansion of the s16.15 multiply (smull and
\* shift) computes it.  The double-width product is formed from the integer
\* and fractional halves of a so that no intermediate exceeds 31 bits for
\* the operands of this model (|a| < 2^20, |b| <= 2^15); with such operands
\* the result fits in 32 bits, so the wrap-around of the type never acts.
\* FixMulShift14 is the variant that shifts by one bit too few.
FixMulShift14(a, b) ==
  (2 * ((a \div One) * b)) + (((a % One) * b) \div (One \div 2))
FixMul(a, b) == ((a \div One) * b) + (((a % One) * b) \div One)

\* ----------------------------------------------------------------- inputs
\* Parameter records (filter, n_filter) a configuration block may carry:
\* decay 0, 0.5 (16384) and 0.9 (29491) with 1 - decay, and one record
\* whose decay, -0.5, lies outside [0,1).
Records ==
  { [filter |-> 0,      n_filter |-> 32768],
    [filter |-> 16384,  n_filter |-> 16384],
    [filter |-> 29491,  n_filter |-> 3277],
    [filter |-> -16384, n_filter |-> 49152] }

\* Activity values the collaborator writes: 10.0 (327680), and minus three
\* units in the last place (where the rounding of a negative product shows).
Values == { 327680, -3 }

\* The configuration block as the loader lays it out: word 0 is the filter
\* count, then one (filter, n_filter) pair of words per filter.
ConfigBlock(F, recs) ==
  [i \in 0..(2 * F) |->
     IF i = 0 THEN F
     ELSE IF i % 2 = 1 THEN recs[(i - 1) \div 2].filter
     ELSE recs[(i - 2) \div 2].n_filter]

\* ------------------------------------------------------------------ state
VARIABLES
  g_num_activity_filters,    \* line 26
  g_filtered_activities,     \* line 27: pointer to an array of pointers
  g_activity_filter_params,  \* line 28: pointer to an array of records
  address,                   \* the configuration region handed to initialise
  nNeurons,                  \* the n_neurons handed to initialise
  heap,                      \* the requests the allocator could grant to it
  ret,                       \* "notcalled", or initialise's return value
  ioLines,                   \* lines written to IO_BUF so far
  mallocCalls,               \* allocation requests made so far
  fault,                     \* an access outside allocated memory happened
  lastCall,                  \* the call that ran last and its n_neurons
  visited,                   \* the <<f, n>> the last step call touched, in order
  nSteps, nInject,           \* step calls and collaborator writes so far
  base, age                  \* per entry: the value last written, steps since

vars == << g_num_activity_filters, g_filtered_activities,
           g_activity_filter_params, address, nNeurons, heap, ret, ioLines,
           mallocCalls, fault, lastCall, visited, nSteps, nInject,
           base, age >>

\* A pointer to an array: null, or a block of `size` elements whose contents
\* are `data` (<<>> while the block has never been written).
NullPtr == [null |-> TRUE, size |-> 0, data |-> << >>]
Block(size, data) == [null |-> FALSE, size |-> size, data |-> data]

\* One element of the state-pointer array: "wild" (never assigned), "null"
\* (assigned a failed allocation) or "ok" (an allocated vector, vec).
WildCell == [st |-> "wild", vec |-> << >>]
NullCell == [st |-> "null", vec |-> << >>]
OkCell(vec) == [st |-> "ok", vec |-> vec]

Init ==
  /\ g_num_activity_filters = 0
  /\ g_filtered_activities = NullPtr
  /\ g_activity_filter_params = NullPtr
  /\ address = [i \in 0..0 |-> 0]
  /\ nNeurons = 0
  /\ heap = 0
  /\ ret = "notcalled"
  /\ ioLines = 0
  /\ mallocCalls = 0
  /\ fault = FALSE
  /\ lastCall = [op |-> "none", n |-> 0]
  /\ visited = << >>
  /\ nSteps = 0
  /\ nInject = 0
  /\ base = << >>
  /\ age = << >>

\* ------------------------------------------- filtered_activity_initialise
\* memset(g_filtered_activities[f], 0, n_neurons * sizeof(value_t)), line 62
\* (MemsetShort: the variant whose vector is one entry short.)
MemsetShort(n_neurons) == [n \in 1..(n_neurons - 1) |-> 0]
Memset0(n_neurons) == [n \in 1..n_neurons |-> 0]

\* memcpy(g_activity_filter_params, &address[1], F * sizeof(record)), line 50:
\* record f is the pair of words that starts at word 1 + 2f.
\* (MemcpyParamsFromWord0: the variant that copies from &address[0].)
MemcpyParamsFromWord0(addr, F) ==
  [f \in 1..F |-> [filter   |-> addr[2 * (f - 1)],
                   n_filter |-> addr[1 + 2 * (f - 1)]]]
MemcpyParams(addr, F) ==
  [f \in 1..F |-> [filter   |-> addr[1 + 2 * (f - 1)],
                   n_filter |-> addr[2 + 2 * (f - 1)]]]

\* MALLOC_FAIL_FALSE(VAR, SIZE), lines 43, 46 and 59: the request is made
\* and, when the allocator refuses it, the function returns false at once.
\* `free` is the number of requests the allocator still grants.
Refused(free) == free = 0

\* The loop of lines 53-63 from filter f on, with `free` allocations still
\* available: one diagnostic line, one allocation request and, when the
\* request is granted, one memset per filter; the first refused request
\* stores null in the cell and returns false.
\* (AllocLoopIgnoreFail: the variant that carries on after a refusal.)
RECURSIVE AllocLoopIgnoreFail(_, _, _, _, _)
AllocLoopIgnoreFail(f, F, n_neurons, free, cells) ==
  IF ~(f < F)
  THEN [ok |-> TRUE, cells |-> cells, calls |-> 0, lines |-> 0]
  ELSE LET cell == IF Refused(free) THEN NullCell ELSE OkCell(Memset0(n_neurons))
           left == IF Refused(free) THEN 0 ELSE free - 1
           rest == AllocLoopIgnoreFail(f + 1, F, n_neurons, left,
                                       [cells EXCEPT ![f + 1] = cell])
       IN  [rest EXCEPT !.calls = @ + 1, !.lines = @ + 1]
RECURSIVE AllocLoop(_, _, _, _, _)
AllocLoop(f, F, n_neurons, free, cells) ==
  IF ~(f < F)
  THEN [ok |-> TRUE, cells |-> cells, calls |-> 0, lines |-> 0]
  ELSE IF Refused(free)
       THEN [ok |-> FALSE, cells |-> [cells EXCEPT ![f + 1] = NullCell],
             calls |-> 1, lines |-> 1]
       ELSE LET rest == AllocLoop(f + 1, F, n_neurons, free - 1,
                           [cells EXCEPT ![f + 1] = OkCell(Memset0(n_neurons))])
            IN  [rest EXCEPT !.calls = @ + 1, !.lines = @ + 1]

\* The test of line 40.  (HasFiltersAlways: the variant that tests >= 0.)
HasFiltersAlways(F) == F >= 0
HasFilters(F) == F > 0

\* Lines 40-64: the allocations, the copy and the loop, as what they leave
\* behind; `free` is the number of allocation requests the allocator grants
\* before it runs dry.  A refused request stores null in the pointer it was
\* for and ends the function with false.
AllocateAll(addr, F, n_neurons, free) ==
  IF ~HasFilters(F)
  THEN [ok |-> TRUE, params |-> g_activity_filter_params,
        acts |-> g_filtered_activities, calls |-> 0, lines |-> 0]
  ELSE IF Refused(free)                              \* line 43 refused
  THEN [ok |-> FALSE, params |-> NullPtr,
        acts |-> g_filtered_activities, calls |-> 1, lines |-> 0]
  ELSE IF Refused(free - 1)                          \* line 46 refused
  THEN [ok |-> FALSE, params |-> Block(F, << >>),
        acts |-> NullPtr, calls |-> 2, lines |-> 0]
  ELSE LET loop == AllocLoop(0, F, n_neurons, free - 2,
                             [f \in 1..F |-> WildCell])
       IN  [ok |-> loop.ok,
            params |-> Block(F, MemcpyParams(addr, F)),
            acts |-> Block(F, loop.cells),
            calls |-> 2 + loop.calls, lines |-> loop.lines]

\* The whole function, lines 33-67: the count is stored first (line 36) and
\* reported (line 38), then the allocations run.
\* (InitialiseResultLateCount: the variant that stores the count only once
\* the allocations have succeeded.)
InitialiseResultLateCount(addr, n_neurons, free) ==
  LET F == addr[0]
      a == AllocateAll(addr, F, n_neurons, free)
  IN  [ret |-> a.ok, num |-> IF a.ok THEN F ELSE g_num_activity_filters,
       params |-> a.params, acts |-> a.acts,
       calls |-> a.calls, lines |-> 1 + a.lines]
InitialiseResult(addr, n_neurons, free) ==
  LET F == addr[0]
      a == AllocateAll(addr, F, n_neurons, free)
  IN  [ret |-> a.ok, num |-> F, params |-> a.params, acts |-> a.acts,
       calls |-> a.calls, lines |-> 1 + a.lines]

\* The entry point is called once, at start-up, with any configuration
\* block, any positive neuron count and any amount of free heap (F + 2
\* requests are the most one call makes).
Initialise ==
  /\ ret = "notcalled"
  /\ ~fault
  /\ \E F \in 0..MaxF, n_neurons \in 1..MaxN :
       \E recs \in [0..(F - 1) -> Records], h \in 0..(F + 2) :
         LET addr == ConfigBlock(F, recs)
             r    == InitialiseResult(addr, n_neurons, h)
         IN  /\ address' = addr
             /\ nNeurons' = n_neurons
             /\ heap' = h
             /\ lastCall' = [op |-> "initialise", n |-> n_neurons]
             /\ g_num_activity_filters' = r.num
             /\ g_activity_filter_params' = r.params
             /\ g_filtered_activities' = r.acts
             /\ ret' = IF r.ret THEN "true" ELSE "false"
             /\ ioLines' = ioLines + r.lines
             /\ mallocCalls' = mallocCalls + r.calls
             /\ base' = IF r.ret THEN [f \in 1..F |-> Memset0(n_neurons)] ELSE << >>
             /\ age' = IF r.ret THEN [f \in 1..F |-> Memset0(n_neurons)] ELSE << >>
  /\ UNCHANGED << fault, visited, nSteps, nInject >>

\* ------------------------------------------------- filtered_activity_step
\* Whether g_filtered_activities[f][n] and g_activity_filter_params[f] name
\* allocated, written memory (the accesses of line 77).
Allocated(acts, params, f, n) ==
  /\ ~acts.null
  /\ f < acts.size
  /\ acts.data[f + 1].st = "ok"
  /\ n < Len(acts.data[f + 1].vec)
  /\ ~params.null
  /\ f < params.size
  /\ f < Len(params.data)

\* Line 77 for one f and n, on the walk record w = [acts, fault, visited]:
\* the entry is multiplied in place by the filter's decay.  An access that
\* is not to allocated memory is undefined behaviour: the walk records the
\* fault and nothing is modelled beyond it.
\* (Variants: StepEntryNFilter multiplies by n_filter, StepEntryFilter0 by
\* the decay of filter 0, StepEntryAddInput adds n_filter as an input term.)
StepEntryNFilter(w, params, f, n) ==
  IF ~Allocated(w.acts, params, f, n)
  THEN [w EXCEPT !.fault = TRUE]
  ELSE [w EXCEPT
          !.acts.data[f + 1].vec[n + 1] = FixMul(@, params.data[f + 1].n_filter),
          !.visited = Append(@, << f, n >>)]
StepEntryFilter0(w, params, f, n) ==
  IF ~Allocated(w.acts, params, f, n)
  THEN [w EXCEPT !.fault = TRUE]
  ELSE [w EXCEPT
          !.acts.data[f + 1].vec[n + 1] = FixMul(@, params.data[1].filter),
          !.visited = Append(@, << f, n >>)]
StepEntryAddInput(w, params, f, n) ==
  IF ~Allocated(w.acts, params, f, n)
  THEN [w EXCEPT !.fault = TRUE]
  ELSE [w EXCEPT
          !.acts.data[f + 1].vec[n + 1] =
             FixMul(@, params.data[f + 1].filter) + params.data[f + 1].n_filter,
          !.visited = Append(@, << f, n >>)]
StepEntry(w, params, f, n) ==
  IF ~Allocated(w.acts, params, f, n)
  THEN [w EXCEPT !.fault = TRUE]
  ELSE [w EXCEPT
          !.acts.data[f + 1].vec[n + 1] = FixMul(@, params.data[f + 1].filter),
          !.visited = Append(@, << f, n >>)]

\* The inner loop, lines 75-78, from neuron n on.
\* (StepNeuronsOffByOne: the variant whose bound is n <= n_neurons.)
RECURSIVE StepNeuronsOffByOne(_, _, _, _, _)
StepNeuronsOffByOne(w, params, f, n, n_neurons) ==
  IF w.fault \/ ~(n <= n_neurons) THEN w
  ELSE StepNeuronsOffByOne(StepEntry(w, params, f, n), params, f, n + 1,
                           n_neurons)
RECURSIVE StepNeurons(_, _, _, _, _)
StepNeurons(w, params, f, n, n_neurons) ==
  IF w.fault \/ ~(n < n_neurons) THEN w
  ELSE StepNeurons(StepEntry(w, params, f, n), params, f, n + 1, n_neurons)

\* The outer loop, lines 72-79, from filter f on.
RECURSIVE StepFilters(_, _, _, _, _)
StepFilters(w, params, f, F, n_neurons) ==
  IF w.fault \/ ~(f < F) THEN w
  ELSE StepFilters(StepNeurons(w, params, f, 0, n_neurons), params,
                   f + 1, F, n_neurons)

\* The whole function, lines 69-80.
StepResult(n_neurons) ==
  StepFilters([acts |-> g_filtered_activities, fault |-> FALSE, visited |-> << >>],
              g_activity_filter_params, 0, g_num_activity_filters, n_neurons)

\* One call of the entry point with the given n_neurons.
Step(n_neurons) ==
  /\ ~fault
  /\ nSteps < MaxSteps
  /\ LET w == StepResult(n_neurons)
     IN  /\ g_filtered_activities' = w.acts
         /\ fault' = w.fault
         /\ visited' = w.visited
  /\ lastCall' = [op |-> "step", n |-> n_neurons]
  /\ nSteps' = nSteps + 1
  /\ age' = [f \in DOMAIN age |-> [n \in DOMAIN age[f] |-> age[f][n] + 1]]
  /\ UNCHANGED << g_num_activity_filters, g_activity_filter_params, address,
                  nNeurons, heap, ret, ioLines, mallocCalls, nInject, base >>

\* A caller that passes any n_neurons, at any time.
StepAny == \E n_neurons \in 0..(MaxN + 1) : Step(n_neurons)

\* A caller that keeps the contract: after a successful initialise, with the
\* n_neurons it gave to initialise.
StepContract == ret = "true" /\ Step(nNeurons)

\* ------------------------------------------------------------ collaborator
\* The external collaborator writes a fresh activity value into one entry of
\* the exported state (the injection the decay-only step leaves to it).
Inject ==
  /\ ret = "true"
  /\ ~fault
  /\ nInject < MaxInject
  /\ \E f \in 0..(g_num_activity_filters - 1), n \in 0..(nNeurons - 1), v \in Values :
       /\ g_filtered_activities' =
            [g_filtered_activities EXCEPT !.data[f + 1].vec[n + 1] = v]
       /\ base' = [base EXCEPT ![f + 1][n + 1] = v]
       /\ age' = [age EXCEPT ![f + 1][n + 1] = 0]
  /\ nInject' = nInject + 1
  /\ lastCall' = [op |-> "inject", n |-> 0]
  /\ UNCHANGED << g_num_activity_filters, g_activity_filter_params, address,
                  nNeurons, heap, ret, ioLines, mallocCalls, fault, visited,
                  nSteps >>

\* ---------------------------------------------------------- specifications
\* The filter bank under any caller: initialise once, step at any time with
\* any n_neurons.
Next == Initialise \/ StepAny
Spec == Init /\ [][Next]_vars

\* The filter bank in a run that keeps the contract of step, with the
\* collaborator writing activity between the steps.
NextContract == Initialise \/ StepContract \/ Inject
ContractSpec == Init /\ [][NextContract]_vars

\* ------------------------------------------------------------- properties
Filters == 0..(g_num_activity_filters - 1)
Neurons == 0..(nNeurons - 1)
StateAt(f, n) == g_filtered_activities.data[f + 1].vec[n + 1]
DecayOf(f) == g_activity_filter_params.data[f + 1].filter
AllZero == \A f \in Filters, n \in Neurons : StateAt(f, n) = 0

\* A step call happens in this transition.
StepTaken == lastCall'.op = "step" /\ nSteps' = nSteps + 1

\* v multiplied k times in succession by d, each product rounded as FixMul
\* rounds it.
RECURSIVE IterMul(_, _, _)
IterMul(v, d, k) == IF k = 0 THEN v ELSE IterMul(FixMul(v, d), d, k - 1)

\* C1: after initialise has run on a configuration whose first word is 0,
\* whatever n_neurons it and the later step calls were given, it has returned
\* true, no allocation request was made, both arrays are still null, the
\* count is 0, and no step call has touched or changed anything.
C1_EmptyConfiguration ==
  (ret # "notcalled" /\ address[0] = 0) =>
     /\ ret = "true"
     /\ mallocCalls = 0
     /\ g_num_activity_filters = 0
     /\ g_activity_filter_params = NullPtr
     /\ g_filtered_activities = NullPtr
     /\ visited = << >>
     /\ ~fault

C1_Witness ==
  /\ address[0] = 0
  /\ ret = "true"
  /\ lastCall = [op |-> "step", n |-> 2]
  /\ nSteps >= 2

\* C2: when initialise returns true for F > 0 filters and N > 0 neurons,
\* there are exactly F state vectors, each of exactly N entries, all 0.
C2_ZeroedState ==
  (lastCall.op = "initialise" /\ ret = "true" /\ address[0] > 0) =>
     /\ ~g_filtered_activities.null
     /\ g_filtered_activities.size = address[0]
     /\ Len(g_filtered_activities.data) = address[0]
     /\ \A f \in 1..address[0] :
          /\ g_filtered_activities.data[f].st = "ok"
          /\ Len(g_filtered_activities.data[f].vec) = lastCall.n
          /\ \A n \in 1..lastCall.n : g_filtered_activities.data[f].vec[n] = 0

C2_Witness ==
  /\ lastCall = [op |-> "initialise", n |-> 2]
  /\ ret = "true"
  /\ address[0] = 2

\* C3: k step calls after an entry was last written with v0 (by initialise
\* or by the collaborator), the entry holds v0 multiplied k times by its
\* filter's decay in fixed point; for v0 = 10.0 one step gives 5.0 to within
\* one unit in the last place under decay 0.5, and 9.0 to within six units
\* (0.0002) under decay 0.9.
C3_DecayCorrect ==
  ret = "true" =>
    \A f \in Filters, n \in Neurons :
      /\ StateAt(f, n) = IterMul(base[f + 1][n + 1], DecayOf(f), age[f + 1][n + 1])
      /\ (base[f + 1][n + 1] = 327680 /\ age[f + 1][n + 1] = 1) =>
           /\ DecayOf(f) = 16384 => Abs(StateAt(f, n) - 163840) <= 1
           /\ DecayOf(f) = 29491 => Abs(StateAt(f, n) - 294912) <= 6

C3_Witness ==
  /\ ret = "true"
  /\ g_num_activity_filters = 2
  /\ DecayOf(0) = 16384
  /\ DecayOf(1) = 29491
  /\ \E n \in Neurons :
       /\ base[2][n + 1] = 327680
       /\ age[2][n + 1] = 2
       /\ StateAt(1, n) = 265417

\* C4: in one step call every entry's new value is the fixed-point product
\* of that same entry's old value and its own filter's decay, and of nothing
\* else; the shape of the state is untouched.
C4_Independence ==
  [][StepTaken =>
       /\ g_filtered_activities'.null = g_filtered_activities.null
       /\ g_filtered_activities'.size = g_filtered_activities.size
       /\ \A f \in Filters :
            /\ g_filtered_activities'.data[f + 1].st = g_filtered_activities.data[f + 1].st
            /\ Len(g_filtered_activities'.data[f + 1].vec) = nNeurons
            /\ \A n \in Neurons :
                 StateAt(f, n)' = FixMul(StateAt(f, n), DecayOf(f))]_vars

C4_Witness ==
  /\ lastCall.op = "step"
  /\ g_num_activity_filters = 2
  /\ nNeurons = 2
  /\ DecayOf(0) = 29491
  /\ DecayOf(1) = 16384
  /\ StateAt(1, 0) = 163840
  /\ StateAt(0, 0) = 0 /\ StateAt(0, 1) = 0 /\ StateAt(1, 1) = 0

\* C5: after a successful initialise the stored record of every filter f is
\* the pair of words 1 + 2f, 2 + 2f of the configuration block and the count
\* is word 0, in every later state; and no step call changes the stored
\* parameters or the count.
C5_ParametersCopiedAndKept ==
  /\ [](ret = "true" =>
          /\ g_num_activity_filters = address[0]
          /\ g_num_activity_filters > 0 =>
               /\ ~g_activity_filter_params.null
               /\ g_activity_filter_params.size = g_num_activity_filters
               /\ Len(g_activity_filter_params.data) = g_num_activity_filters
          /\ \A f \in Filters :
               /\ g_activity_filter_params.data[f + 1].filter = address[1 + 2 * f]
               /\ g_activity_filter_params.data[f + 1].n_filter = address[2 + 2 * f])
  /\ [][StepTaken =>
          UNCHANGED << g_activity_filter_params, g_num_activity_filters >>]_vars

C5_Witness ==
  /\ ret = "true"
  /\ lastCall.op = "step"
  /\ g_num_activity_filters = 2
  /\ g_activity_filter_params.data[1] = [filter |-> 29491, n_filter |-> 3277]
  /\ g_activity_filter_params.data[2] = [filter |-> 16384, n_filter |-> 16384]

\* C6: initialise makes its requests in the order parameter array, pointer
\* array, vector 0, vector 1, ...; it returns false exactly when one of them
\* is refused, makes no request after the refused one, and leaves what was
\* granted before it allocated: the vectors granted are zero-filled, the
\* refused one is not allocated.
C6_AllocationFailure ==
  lastCall.op = "initialise" =>
    LET F      == address[0]
        needed == IF F > 0 THEN F + 2 ELSE 0
    IN  /\ (ret = "false") <=> (heap < needed)
        /\ mallocCalls = IF heap < needed THEN heap + 1 ELSE needed
        /\ ret = "false" =>
             /\ g_activity_filter_params.null <=> (heap = 0)
             /\ heap >= 1 => g_activity_filter_params.size = F
             /\ g_filtered_activities.null <=> (heap <= 1)
             /\ heap >= 2 =>
                  /\ g_filtered_activities.size = F
                  /\ \A f \in 1..F :
                       /\ f <= heap - 2 =>
                            g_filtered_activities.data[f] = OkCell([n \in 1..nNeurons |-> 0])
                       /\ f > heap - 2 =>
                            g_filtered_activities.data[f].st # "ok"

C6_Witness ==
  /\ lastCall.op = "initialise"
  /\ ret = "false"
  /\ address[0] = 2
  /\ heap = 3
  /\ g_filtered_activities.data[1].st = "ok"
  /\ g_filtered_activities.data[2].st # "ok"

\* C7: after a successful initialise(config, N), every step(N) call touches
\* only allocated entries and parameters (no fault), touches every
\* state[f][n] with f < F and n < N exactly once, makes no allocation
\* request and writes no diagnostic line.
C7_StepCannotFail ==
  /\ [](~fault)
  /\ [](lastCall.op = "step" =>
          /\ Len(visited) = g_num_activity_filters * nNeurons
          /\ \A f \in Filters, n \in Neurons :
               Cardinality({i \in 1..Len(visited) : visited[i] = << f, n >>}) = 1)
  /\ [][StepTaken => mallocCalls' = mallocCalls /\ ioLines' = ioLines]_vars

C7_Witness ==
  /\ lastCall = [op |-> "step", n |-> 2]
  /\ g_num_activity_filters = 2
  /\ visited = << << 0, 0 >>, << 0, 1 >>, << 1, 0 >>, << 1, 1 >> >>
  /\ nSteps = 2
  /\ ~fault

\* C8: a step call made when every entry is 0 leaves every entry 0,
\* whatever the decay coefficients are.
C8_ZeroFixedPoint ==
  [][(StepTaken /\ ret = "true" /\ AllZero) => AllZero']_vars

C8_Witness ==
  /\ lastCall.op = "step"
  /\ ret = "true"
  /\ nInject = 0
  /\ g_num_activity_filters = 2
  /\ nNeurons = 2
  /\ DecayOf(0) = -16384
  /\ DecayOf(1) = 29491
  /\ AllZero

\* C9: for a filter whose decay is in [0,1), one step call never makes an
\* entry larger in magnitude and never changes its sign, and with decay 0
\* the entry is 0 afterwards.
C9_DecayTowardZero ==
  [][StepTaken =>
       \A f \in Filters, n \in Neurons :
         (0 <= DecayOf(f) /\ DecayOf(f) < One) =>
            /\ Abs(StateAt(f, n)') <= Abs(StateAt(f, n))
            /\ StateAt(f, n) >= 0 => StateAt(f, n)' >= 0
            /\ StateAt(f, n) <= 0 => StateAt(f, n)' <= 0
            /\ DecayOf(f) = 0 => StateAt(f, n)' = 0]_vars

C9_Witness ==
  /\ lastCall.op = "step"
  /\ \E f \in Filters, n \in Neurons :
       /\ DecayOf(f) = 29491
       /\ base[f + 1][n + 1] = -3
       /\ age[f + 1][n + 1] = 2
       /\ StateAt(f, n) = -3

\* C10: before initialise is called the count is 0 and both arrays are null,
\* so a step call touches nothing; and when initialise has returned false
\* the count is the F > 0 of the configuration block while the parameter
\* array, the pointer array or one of the F state vectors is not allocated.
C10_CountSetBeforeAllocation ==
  /\ ret = "notcalled" =>
       /\ g_num_activity_filters = 0
       /\ g_activity_filter_params = NullPtr
       /\ g_filtered_activities = NullPtr
       /\ visited = << >>
       /\ ~fault
  /\ (ret = "false" /\ lastCall.op = "initialise") =>
       /\ g_num_activity_filters = address[0]
       /\ g_num_activity_filters > 0
       /\ \/ g_activity_filter_params.null
          \/ g_filtered_activities.null
          \/ \E f \in Filters : g_filtered_activities.data[f + 1].st # "ok"

C10_Witness ==
  /\ ret = "false"
  /\ lastCall.op = "initialise"
  /\ nSteps >= 1
  /\ g_num_activity_filters = 2
  /\ g_activity_filter_params.null
====
